---- MODULE Spec2Model ----
(***************************************************************************)
(* Model of src/app.py: the scenic drive planner.  The script is a         *)
(* Streamlit page: every UI event runs it from top to bottom; the          *)
(* session state (report_data) survives between runs.                      *)
(*                                                                         *)
(* Conventions.  Python None is the record None.  A Python list held by a  *)
(* name that may also be None is wrapped as List(s).  A dict whose keys    *)
(* may be absent is a record whose DOMAIN may lack the key.  A call that   *)
(* may raise yields Return(v) or Raise(kind).  Ratings are in tenths       *)
(* (4.0 is 40).  A decoded path is the sequence of its point numbers.      *)
(***************************************************************************)
EXTENDS Integers, Sequences, FiniteSets, TLC

VARIABLES
    pc,                 \* position of the script / orchestrator state
    start_destination,  \* value of the "start_searchbox" widget
    end_destination,    \* value of the "end_searchbox" widget
    report_data,        \* st.session_state.report_data
    route_options,      \* local of the planning block
    chosen_route_id,    \* local of the planning block
    chosen_route,       \* local of the planning block
    preview_assets,     \* (drive_gif, grid_urls) of the planning block
    pit_stops,          \* local of the planning block
    ai_narrative_text,  \* local of the planning block
    messages,           \* st.error / st.warning / st.info / st.success of this script run
    archive,            \* number of report files written to "archive"
    raised,             \* the exception that ended the script run, or None
    calls,              \* history: the component calls of this script run, in order
    preview,            \* frame of create_drive_preview_assets (loop position and locals)
    scenic,             \* frame of get_scenic_spots (loop position and locals)
    pit,                \* frame of get_pit_stops (input and result)
    choice,             \* frame of lines 198-205 (the AI answer and the route chosen)
    sampler,            \* frame of the three path samplers (path length and indices)
    cache,              \* the st.cache_data store of each decorated function
    requests            \* history: the executions that contacted a provider, per function

vars == <<pc, start_destination, end_destination, report_data, route_options,
          chosen_route_id, chosen_route, preview_assets, pit_stops, ai_narrative_text, messages,
          archive, raised, calls, preview, scenic, pit, choice, sampler, cache, requests>>

-----------------------------------------------------------------------------
(* Bounds of the model *)

MaxRoutes == 3
MaxArchive == 2
MaxTextLen == 2
MaxResults == 2
MaxPitResults == 6
MaxHits == 3
MaxMisses == 2
MaxPathLen == 100

-----------------------------------------------------------------------------
(* Python values *)

None == [none |-> TRUE]
List(s) == [items |-> s]
Return(v) == [exc |-> "none", ret |-> v]
Raise(kind) == [exc |-> kind, ret |-> None]
Unselected == ""

Get(d, k, default) == IF k \in DOMAIN d THEN d[k] ELSE default

Min(a, b) == IF a < b THEN a ELSE b

Take(s, n) == SubSeq(s, 1, Min(n, Len(s)))

Range(s) == {s[i] : i \in 1..Len(s)}

RECURSIVE SeqsUpTo(_, _)
SeqsUpTo(S, n) ==
    IF n = 0 THEN {<<>>}
    ELSE LET shorter == SeqsUpTo(S, n - 1)
         IN  shorter \cup {Append(s, x) : s \in {t \in shorter : Len(t) = n - 1}, x \in S}

-----------------------------------------------------------------------------
(* polyline.decode and the samplers *)

PolylineDecode(p) ==
    IF p.ok THEN Return(List([i \in 1..p.len |-> i])) ELSE Raise("DecodeError")

\* path[int(i * len(path) / n)], the path being 1-based here
\* int(i * L / n) with a rounding division
SampleIndexRounded(i, L, n) == (2 * i * L + n) \div (2 * n)

\* int(i * L / n) of lines 50 and 82, for a path of L points: the float
\* quotient is truncated, which for path lengths far below 2^53 is the
\* integer quotient
SampleIndex(i, L, n) == (i * L) \div n

\* path[int(i * len(path) / n)]; Python indexes from 0, sequences from 1
PathAt(path, i, n) == path[SampleIndex(i, Len(path), n) + 1]

\* line 70, len(path) // 2
MidpointIndex(L) == L \div 2

-----------------------------------------------------------------------------
(* get_route_options *)

\* lines 26-34: response is the provider's answer, read only when the text
\* is not empty
GetAutocompleteSuggestions(search_text, response) ==
    IF search_text = "" THEN <<>>
    ELSE IF response.kind # "ok" THEN <<>>
    ELSE LET predictions == Get(response.body, "predictions", <<>>)
         IN  IF \E n \in 1..Len(predictions) : "description" \notin DOMAIN predictions[n]
             THEN <<>>
             ELSE [n \in 1..Len(predictions) |-> predictions[n].description]

RouteId(n) == [route |-> n]

GetRouteOptions(response) ==
    IF response.kind # "ok" THEN None
    ELSE IF response.routes = <<>> THEN None
    ELSE List([i \in 1..Len(response.routes) |->
                 [id |-> RouteId(i),
                  summary |-> response.routes[i].summary,
                  distance_text |-> response.routes[i].distance_text,
                  duration_text |-> response.routes[i].duration_text,
                  polyline |-> response.routes[i].polyline]])

-----------------------------------------------------------------------------
(* get_scenic_spots *)

NumScenicSamples == 7

\* line 50, the indices of range(7) in a path of L points
ScenicSampleIndices(L) ==
    [i \in 1..NumScenicSamples |-> SampleIndex(i - 1, L, NumScenicSamples)]

keywords == <<"scenic lookout", "waterfall", "historic landmark", "temple", "beach", "hiking area">>

allowed_types == {"tourist_attraction", "park", "museum", "natural_feature", "zoo",
                  "art_gallery", "landmark"}

RatingThreshold == 40

\* the dict scenic_places: its entries in insertion order; assigning to a
\* key that is present replaces the value in place
DictKeys(d) == {d[i].key : i \in 1..Len(d)}

DictSet(d, k, v) ==
    IF k \in DictKeys(d)
    THEN [i \in 1..Len(d) |-> IF d[i].key = k THEN [key |-> k, value |-> v] ELSE d[i]]
    ELSE Append(d, [key |-> k, value |-> v])

DictValues(d) == [i \in 1..Len(d) |-> d[i].value]

\* a filter that lets a rating of exactly 4.0 pass
PlaceFilterInclusive(place) ==
    /\ Get(place, "photos", <<>>) # <<>>
    /\ Get(place, "rating", 0) >= RatingThreshold
    /\ allowed_types \cap Get(place, "types", {}) # {}

\* the condition of line 62
PlaceFilter(place) ==
    /\ Get(place, "photos", <<>>) # <<>>
    /\ Get(place, "rating", 0) > RatingThreshold
    /\ allowed_types \cap Get(place, "types", {}) # {}

\* the subscripts of line 63, which raise KeyError when a key is absent
PlaceHasKeys(place) ==
    /\ "place_id" \in DOMAIN place
    /\ "name" \in DOMAIN place
    /\ "photo_reference" \in DOMAIN place.photos[1]

\* the loop over one result list, lines 60-63; an exception ends it and is
\* swallowed by line 64, the entries stored so far stay
RECURSIVE ScenicResults(_, _)
ScenicResults(scenic_places, results) ==
    IF results = <<>> THEN scenic_places
    ELSE LET place == Head(results)
         IN  IF ~PlaceFilter(place) THEN ScenicResults(scenic_places, Tail(results))
             ELSE IF ~PlaceHasKeys(place) THEN scenic_places
             ELSE ScenicResults(
                      DictSet(scenic_places, place.place_id,
                              [name |-> place.name,
                               photo_reference |-> place.photos[1].photo_reference]),
                      Tail(results))

\* one nearby-search, lines 56-64
ScenicSearch(scenic_places, response) ==
    IF response.kind # "ok" THEN scenic_places
    ELSE ScenicResults(scenic_places, response.results)

\* the inner loop of line 55 at one sample point: responses[k] answers the
\* search for keywords[k].  (Len(scenic_places) < 0 never holds; reading the
\* dict at every turn keeps TLC from nesting the 42 pending updates.)
RECURSIVE ScenicKeywordLoop(_, _, _)
ScenicKeywordLoop(scenic_places, responses, k) ==
    IF k > Len(keywords) \/ Len(scenic_places) < 0 THEN scenic_places
    ELSE ScenicKeywordLoop(ScenicSearch(scenic_places, responses[k]), responses, k + 1)

\* the outer loop of line 54: responses[i] holds the answers at sample point i
RECURSIVE ScenicPointLoop(_, _, _)
ScenicPointLoop(scenic_places, responses, i) ==
    IF i > NumScenicSamples \/ Len(scenic_places) < 0 THEN scenic_places
    ELSE ScenicPointLoop(ScenicKeywordLoop(scenic_places, responses[i], 1), responses, i + 1)

GetScenicSpots(route_polyline, responses) ==
    LET path == PolylineDecode(route_polyline)
    IN  IF path.exc # "none" THEN Raise(path.exc)
        ELSE IF path.ret.items = <<>> THEN Raise("IndexError")
        ELSE Return(List(DictValues(ScenicPointLoop(<<>>, responses, 1))))

-----------------------------------------------------------------------------
(* get_llm_choice *)

Digits == {"0", "1", "2", "3", "4", "5", "6", "7", "8", "9"}

DigitValue(c) ==
    CASE c = "0" -> 0 [] c = "1" -> 1 [] c = "2" -> 2 [] c = "3" -> 3 [] c = "4" -> 4
      [] c = "5" -> 5 [] c = "6" -> 6 [] c = "7" -> 7 [] c = "8" -> 8 [] c = "9" -> 9

\* "".join(filter(str.isdigit, text))
FilterDigits(text) == SelectSeq(text, LAMBDA c : c \in Digits)

\* int(s) of a string of digits
RECURSIVE IntOfDigits(_)
IntOfDigits(s) ==
    IF s = <<>> THEN 0
    ELSE 10 * IntOfDigits(SubSeq(s, 1, Len(s) - 1)) + DigitValue(s[Len(s)])

\* a reading that stops at the first digit of the answer
GetLlmChoiceFirstDigit(response) ==
    IF response.kind # "ok" THEN None
    ELSE IF FilterDigits(response.text) = <<>> THEN None
    ELSE RouteId(DigitValue(FilterDigits(response.text)[1]))

GetLlmChoice(response) ==
    IF response.kind # "ok" THEN None
    ELSE IF FilterDigits(response.text) = <<>> THEN None
    ELSE RouteId(IntOfDigits(FilterDigits(response.text)))

-----------------------------------------------------------------------------
(* route selection, lines 200-205 *)

RouteIds(options) == {options[i].id : i \in 1..Len(options)}

\* max(iterable, key=...): the first element whose key is not exceeded
RECURSIVE PyMaxLast(_, _, _)
PyMaxLast(options, best, i) ==
    IF i > Len(options) THEN best
    ELSE IF Len(options[i].scenic_spots) >= Len(best.scenic_spots)
         THEN PyMaxLast(options, options[i], i + 1)
         ELSE PyMaxLast(options, best, i + 1)

RECURSIVE PyMaxFrom(_, _, _)
PyMaxFrom(options, best, i) ==
    IF i > Len(options) THEN best
    ELSE IF Len(options[i].scenic_spots) > Len(best.scenic_spots)
         THEN PyMaxFrom(options, options[i], i + 1)
         ELSE PyMaxFrom(options, best, i + 1)

MaxByScenicSpots(options) == PyMaxFrom(options, options[1], 2)

\* next((r for r in route_options if r['id'] == chosen_route_id), None)
RECURSIVE NextById(_, _, _)
NextById(options, id, i) ==
    IF i > Len(options) THEN None
    ELSE IF options[i].id = id THEN options[i]
    ELSE NextById(options, id, i + 1)

ChoiceInconclusive(id, options) ==
    id = None \/ id \notin RouteIds(options)

\* a selection that trusts the id the AI answered
SelectRouteTrusting(id, options) ==
    IF id = None THEN MaxByScenicSpots(options)
    ELSE [options[1] EXCEPT !.id = id]

SelectRoute(id, options) ==
    IF ChoiceInconclusive(id, options)
    THEN MaxByScenicSpots(options)
    ELSE NextById(options, id, 1)

-----------------------------------------------------------------------------
(* create_drive_preview_assets *)

NumPreviewSamples == 24
PreviewSplit == 25
GridMax == 12
GifMax == 10

\* what the three remote steps at one sample point do: the metadata request
\* (raises, or a status), the image request (raises, or a status code), and
\* imageio.imread of the content (raises, or decodes)
MetaRaise == [meta |-> "raise", image |-> "200", imread |-> "ok"]
MetaNotOk == [meta |-> "ZERO_RESULTS", image |-> "200", imread |-> "ok"]
ImageRaise == [meta |-> "OK", image |-> "raise", imread |-> "ok"]
ImageNot200 == [meta |-> "OK", image |-> "404", imread |-> "ok"]
ImreadRaise == [meta |-> "OK", image |-> "200", imread |-> "raise"]
AllOk == [meta |-> "OK", image |-> "200", imread |-> "ok"]

PointOutcomes == {MetaRaise, MetaNotOk, ImageRaise, ImageNot200, ImreadRaise, AllOk}

StreetViewUrl(point) == [location |-> point]

\* imageio.imread(image_response.content): the picture served for that url
Imread(url) == [picture_of |-> url.location]

\* the body of the loop for one sample point, lines 85-95
PreviewPoint(loc, point, outcome) ==
    IF outcome.meta # "OK" THEN loc
    ELSE IF outcome.image # "200" THEN loc
    ELSE LET image_url == StreetViewUrl(point)
             grid == Append(loc.image_urls_for_grid, image_url)
         IN  IF Len(loc.images_for_gif) < GifMax
             THEN IF outcome.imread = "raise"
                  THEN [loc EXCEPT !.image_urls_for_grid = grid]
                  ELSE [image_urls_for_grid |-> grid,
                        images_for_gif |-> Append(loc.images_for_gif, Imread(image_url))]
             ELSE [loc EXCEPT !.image_urls_for_grid = grid]

\* line 84
PreviewBreak(loc) == Len(loc.image_urls_for_grid) >= GridMax

\* lines 96-100
PreviewReturn(loc) ==
    IF loc.images_for_gif = <<>>
    THEN [drive_gif |-> None, grid_urls |-> None]
    ELSE [drive_gif |-> [frames |-> loc.images_for_gif, duration |-> 5, loop |-> 0],
          grid_urls |-> List(loc.image_urls_for_grid)]

\* line 82, the indices of range(1, 25) in a path of L points
PreviewSampleIndices(L) ==
    [i \in 1..NumPreviewSamples |-> SampleIndex(i, L, PreviewSplit)]

PreviewSamplePoints(path) == [i \in 1..NumPreviewSamples |-> PathAt(path, i, PreviewSplit)]

RECURSIVE PreviewLoop(_, _, _, _)
PreviewLoop(loc, sample_points, outcomes, n) ==
    IF n > Len(sample_points) \/ PreviewBreak(loc) THEN loc
    ELSE PreviewLoop(PreviewPoint(loc, sample_points[n], outcomes[n]),
                     sample_points, outcomes, n + 1)

EmptyPreviewLocals == [image_urls_for_grid |-> <<>>, images_for_gif |-> <<>>]

CreateDrivePreviewAssets(polyline_str, outcomes) ==
    LET path == PolylineDecode(polyline_str)
    IN  IF path.exc # "none" THEN Raise(path.exc)
        ELSE IF path.ret.items = <<>> THEN Raise("IndexError")
        ELSE Return(PreviewReturn(PreviewLoop(EmptyPreviewLocals,
                                              PreviewSamplePoints(path.ret.items),
                                              outcomes, 1)))

-----------------------------------------------------------------------------
(* get_pit_stops *)

PitStopMax == 5

\* the sort key of line 75
RatingKey(p) == Get(p, "rating", 0)

\* sorted(results, key=..., reverse=True) is stable: a record goes behind
\* every record whose key is at least its own
\* a sort that puts a record before the records of equal key
RECURSIVE InsertBeforeEqual(_, _)
InsertBeforeEqual(sorted, p) ==
    IF sorted = <<>> THEN <<p>>
    ELSE IF RatingKey(Head(sorted)) > RatingKey(p)
         THEN <<Head(sorted)>> \o InsertBeforeEqual(Tail(sorted), p)
         ELSE <<p>> \o sorted

RECURSIVE InsertByRating(_, _)
InsertByRating(sorted, p) ==
    IF sorted = <<>> THEN <<p>>
    ELSE IF RatingKey(Head(sorted)) >= RatingKey(p)
         THEN <<Head(sorted)>> \o InsertByRating(Tail(sorted), p)
         ELSE <<p>> \o sorted

RECURSIVE SortedByRating(_)
SortedByRating(results) ==
    IF results = <<>> THEN <<>>
    ELSE InsertByRating(SortedByRating(SubSeq(results, 1, Len(results) - 1)),
                        results[Len(results)])

ShownRating(p) == IF "rating" \in DOMAIN p THEN [number |-> p.rating] ELSE [text |-> "N/A"]

PitStopOf(p) ==
    [name |-> p.name, rating |-> ShownRating(p),
     total_ratings |-> Get(p, "user_ratings_total", 0)]

GetPitStops(route_polyline, response) ==
    LET path == PolylineDecode(route_polyline)
    IN  IF path.exc # "none" THEN Raise(path.exc)
        ELSE IF path.ret.items = <<>> THEN Raise("IndexError")
        ELSE IF response.kind # "ok" THEN Return(List(<<>>))
        ELSE LET top == Take(SortedByRating(response.results), PitStopMax)
             IN  IF \E i \in 1..Len(top) : "name" \notin DOMAIN top[i]
                 THEN Return(List(<<>>))
                 ELSE Return(List([i \in 1..Len(top) |-> PitStopOf(top[i])]))

-----------------------------------------------------------------------------
(* get_llm_narrative_stream, stream_text_generator *)

NarrativeFailed == <<"AI narrative could not be generated.">>

\* model.generate_content(prompt, stream=True): raises, or hands out a stream
GetLlmNarrativeStream(response) ==
    IF response.kind # "ok" THEN None ELSE response.stream

\* "".join(list(stream_text_generator(stream))): the texts of the chunks
\* that have parts, in arrival order; an error of the stream ends the
\* iteration with that exception
RECURSIVE JoinChunks(_)
JoinChunks(chunks) ==
    IF chunks = <<>> THEN <<>>
    ELSE (IF Head(chunks).parts THEN Head(chunks).text ELSE <<>>) \o JoinChunks(Tail(chunks))

StreamText(stream) ==
    IF stream.error # "none" THEN Raise(stream.error)
    ELSE Return(List(JoinChunks(stream.chunks)))

-----------------------------------------------------------------------------
(* generate_report_html *)

SpotsShown == 8

GenerateReportHtml(data) ==
    IF data.drive_gif = None THEN Raise("AttributeError")
    ELSE IF data.grid_urls = None THEN Raise("TypeError")
    ELSE Return([gif_base64 |-> data.drive_gif,
                 drive_preview_html |-> data.grid_urls.items,
                 scenic_spots_html |-> Take(data.scenic_spots, SpotsShown),
                 pit_stops_html |-> data.pit_stops,
                 from |-> data.start_destination,
                 to |-> data.end_destination,
                 distance_text |-> data.chosen_route.distance_text,
                 duration_text |-> data.chosen_route.duration_text,
                 map_url |-> data.map_url,
                 ai_narrative |-> data.ai_narrative])

-----------------------------------------------------------------------------
(* What the providers may answer in a planning run *)

PathLen == 30

GoodPolyline == [ok |-> TRUE, len |-> PathLen]
BadPolyline == [ok |-> FALSE, len |-> 0]

\* the alternatives of one answer follow different roads: each has a
\* polyline of its own
ProviderRoute(i, poly) ==
    [summary |-> [via |-> i], distance_text |-> [km |-> 10 * i],
     duration_text |-> [mins |-> 15 * i],
     polyline |-> [ok |-> poly.ok, len |-> poly.len, via |-> i]]

RouteResponses ==
    {[kind |-> k, routes |-> <<>>] : k \in {"TransportError", "DecodeError", "ok"}}
    \cup UNION {{[kind |-> "ok", routes |-> [i \in 1..n |-> ProviderRoute(i, polys[i])]] :
                    polys \in [1..n -> {GoodPolyline, BadPolyline}]} : n \in 1..MaxRoutes}

ScenicPlace(n) ==
    [place_id |-> n, name |-> [spot |-> n], photos |-> <<[photo_reference |-> n]>>,
     rating |-> 45, types |-> {"park", "restaurant"}]

\* the first k searches find one scenic place each, the others fail or find nothing
ScenicScenario(k) ==
    [i \in 1..NumScenicSamples |->
        [j \in 1..Len(keywords) |->
            LET n == (i - 1) * Len(keywords) + j
            IN  IF n <= k THEN [kind |-> "ok", results |-> <<ScenicPlace(n)>>]
                ELSE IF n % 2 = 0 THEN [kind |-> "TransportError", results |-> <<>>]
                ELSE [kind |-> "ok", results |-> <<>>]]]

ScenicCounts == {0, 2}

ChoiceAlphabet == {"2", "x"}

ChoiceResponses ==
    {[kind |-> "TransportError", text |-> <<>>]}
    \cup {[kind |-> "ok", text |-> t] : t \in SeqsUpTo(ChoiceAlphabet, MaxTextLen)}

PreviewScenarios ==
    {[n \in 1..NumPreviewSamples |-> o] : o \in PointOutcomes}
    \cup {[n \in 1..NumPreviewSamples |-> IF n \in {5, 10, 15} THEN AllOk ELSE MetaNotOk],
          [n \in 1..NumPreviewSamples |-> IF n = 1 THEN ImreadRaise ELSE AllOk]}

PitPlace(n, r) == [name |-> [cafe |-> n], rating |-> r, user_ratings_total |-> 100 + n]

PitResponses ==
    {[kind |-> "TransportError", results |-> <<>>],
     [kind |-> "ok", results |-> <<>>],
     [kind |-> "ok", results |-> <<PitPlace(1, 35), PitPlace(2, 48), [name |-> [cafe |-> 3]],
                                   PitPlace(4, 48), PitPlace(5, 41), PitPlace(6, 44)>>]}

NarrativeResponses ==
    {[kind |-> "TransportError", stream |-> None],
     [kind |-> "ok",
      stream |-> [chunks |-> <<[parts |-> TRUE, text |-> <<"A winding ">>],
                               [parts |-> FALSE, text |-> <<>>],
                               [parts |-> TRUE, text |-> <<"coastal drive.">>]>>,
                  error |-> "none"]],
     [kind |-> "ok",
      stream |-> [chunks |-> <<[parts |-> TRUE, text |-> <<"A winding ">>]>>,
                  error |-> "TransportError"]]}

\* what the user types into the two searchboxes
StartTexts == {"", "A"}
EndTexts == {"", "B"}

\* the provider suggests the place typed, or nothing, or fails
AutocompleteResponses(search_text) ==
    {[kind |-> "TransportError", body |-> [status |-> "none"]],
     [kind |-> "ok", body |-> [status |-> "ZERO_RESULTS"]],
     [kind |-> "ok", body |-> [status |-> "OK",
                               predictions |-> <<[description |-> search_text]>>]],
     [kind |-> "ok", body |-> [status |-> "OK",
                               predictions |-> <<[description |-> search_text],
                                                 [place_id |-> search_text]>>]]}

-----------------------------------------------------------------------------
(* st.cache_data, lines 25, 36, 47, 67, 78 and 103.  The store of a        *)
(* decorated function holds one entry per argument value for which the     *)
(* body has returned; it lives as long as the process.  A call whose       *)
(* arguments are stored returns the stored value and does not run the      *)
(* body.  Any returned value is stored, None and [] included; a body that  *)
(* raises stores nothing and the exception reaches the caller.             *)

Memoized == {"get_autocomplete_suggestions", "get_route_options", "get_scenic_spots",
             "get_pit_stops", "create_drive_preview_assets", "get_llm_choice"}

EmptyCache == [fn \in Memoized |-> {}]
NoRequests == [fn \in Memoized |-> {}]

\* history: one more execution of fn on args has contacted its provider; nth
\* counts the executions on these args
NoteRequest(fn, args) ==
    LET earlier == {e \in requests[fn] : e.args = args}
    IN  [requests EXCEPT
           ![fn] = @ \cup {[args |-> args, nth |-> Cardinality(earlier) + 1]}]

\* what each decorated function returns when its provider fails or finds
\* nothing: lines 27 and 34, 43 and 45, 65, 76, 96, 114
EmptyResult ==
    [get_autocomplete_suggestions |-> <<>>,
     get_route_options |-> None,
     get_scenic_spots |-> List(<<>>),
     get_pit_stops |-> List(<<>>),
     create_drive_preview_assets |-> [drive_gif |-> None, grid_urls |-> None],
     get_llm_choice |-> None]

\* a memo that serves only the results that are not empty
CacheHitTruthy(fn, args) ==
    \E e \in cache[fn] : e.args = args /\ e.ret # EmptyResult[fn]

CacheHit(fn, args) == \E e \in cache[fn] : e.args = args

CacheValue(fn, args) == (CHOOSE e \in cache[fn] : e.args = args).ret

\* a function without the decorator: nothing is kept
CacheStoreNothing(fn, args, ret) == cache

CacheStore(fn, args, ret) ==
    [cache EXCEPT ![fn] = @ \cup {[args |-> args, ret |-> ret]}]

\* a call of the decorated function fn: body is what the undecorated function
\* does on args this time (Return or Raise), network tells whether the body
\* gets as far as contacting a provider
CachedCall(fn, args, body, network) ==
    IF CacheHit(fn, args)
    THEN [exc |-> "none", ret |-> CacheValue(fn, args), cache |-> cache,
          requests |-> requests]
    ELSE IF body.exc # "none"
    THEN [exc |-> body.exc, cache |-> cache, requests |-> requests]
    ELSE [exc |-> "none", ret |-> body.ret, cache |-> CacheStore(fn, args, body.ret),
          requests |-> IF network THEN NoteRequest(fn, args) ELSE requests]

\* the answers a call of fn on args may meet: on a hit no provider is asked,
\* and the one answer listed is never read
Asked(fn, args, responses) ==
    IF CacheHit(fn, args) THEN {CHOOSE response \in responses : TRUE} ELSE responses

CacheIdle == UNCHANGED <<cache, requests>>

-----------------------------------------------------------------------------
(* The script, lines 179-289 *)

ScriptOver == {"Idle", "Aborted", "Crashed", "Presented"}

Error(text) == [level |-> "error", text |-> text]
Warning(text) == [level |-> "warning", text |-> text]
Info(text) == [level |-> "info", text |-> text]
Success(text) == [level |-> "success", text |-> text]

\* truthiness of a value that is None or a list
Falsy(v) == v = None \/ v.items = <<>>

ComponentsIdle == UNCHANGED <<preview, scenic, pit, choice, sampler>>

\* a new script run: the module-level names of the last run are gone
FreshRun ==
    /\ route_options' = None
    /\ chosen_route_id' = None
    /\ chosen_route' = None
    /\ preview_assets' = None
    /\ pit_stops' = None
    /\ ai_narrative_text' = None
    /\ messages' = {}
    /\ raised' = None
    /\ calls' = <<>>

\* an exception nobody catches ends the script run
Crash(exc, where) ==
    /\ pc' = "Crashed"
    /\ raised' = [exc |-> exc, in |-> where]

\* lines 184-187: the user types into a searchbox, which asks
\* get_autocomplete_suggestions, and picks one of the suggestions or leaves
\* the box empty; the script reruns
SearchboxInput ==
    /\ pc \in ScriptOver
    /\ \E box \in {"start_searchbox", "end_searchbox"} :
          \E search_text \in IF box = "start_searchbox" THEN StartTexts ELSE EndTexts :
             \E response \in Asked("get_autocomplete_suggestions", search_text,
                                    AutocompleteResponses(search_text)) :
                LET call == CachedCall("get_autocomplete_suggestions", search_text,
                                Return(GetAutocompleteSuggestions(search_text, response)),
                                search_text # "")
                IN  \E selected \in Range(call.ret) \cup {Unselected} :
                       /\ start_destination' = IF box = "start_searchbox" THEN selected
                                               ELSE start_destination
                       /\ end_destination' = IF box = "end_searchbox" THEN selected
                                             ELSE end_destination
                       /\ cache' = call.cache
                       /\ requests' = call.requests
    /\ FreshRun
    /\ pc' = "Dashboard"
    /\ UNCHANGED <<report_data, archive>>
    /\ ComponentsIdle

\* the download button reruns the script
DownloadClick ==
    /\ pc = "Presented"
    /\ FreshRun
    /\ pc' = "Dashboard"
    /\ UNCHANGED <<start_destination, end_destination, report_data, archive>>
    /\ ComponentsIdle
    /\ CacheIdle

\* a submission that leaves the previous report in place
PlanButtonKeepsReport ==
    /\ pc \in ScriptOver
    /\ archive < MaxArchive
    /\ FreshRun
    /\ pc' = IF start_destination # Unselected /\ end_destination # Unselected
             THEN "Submitted" ELSE "Dashboard"
    /\ UNCHANGED <<start_destination, end_destination, report_data, archive>>
    /\ ComponentsIdle
    /\ CacheIdle

\* lines 188-191; no further run is explored once MaxArchive reports are written
PlanButton ==
    /\ pc \in ScriptOver
    /\ archive < MaxArchive
    /\ FreshRun
    /\ IF start_destination # Unselected /\ end_destination # Unselected
       THEN /\ report_data' = None
            /\ pc' = "Submitted"
       ELSE /\ report_data' = report_data
            /\ pc' = "Dashboard"
    /\ UNCHANGED <<start_destination, end_destination, archive>>
    /\ ComponentsIdle
    /\ CacheIdle

\* a stage 1 that reports the missing routes and goes on
FetchRoutesNoStop ==
    /\ pc = "Submitted"
    /\ \E response \in Asked("get_route_options", <<start_destination, end_destination>>,
                              RouteResponses) :
          LET call == CachedCall("get_route_options",
                                 <<start_destination, end_destination>>,
                                 Return(GetRouteOptions(response)), TRUE)
              options == call.ret
          IN  /\ cache' = call.cache
              /\ requests' = call.requests
              /\ route_options' = options
              /\ messages' = IF Falsy(options)
                             THEN messages \cup {Error("No routes found.")}
                             ELSE messages
              /\ pc' = "RoutesFetched"
    /\ calls' = Append(calls, "directions")
    /\ UNCHANGED <<start_destination, end_destination, report_data, chosen_route_id,
                   chosen_route, preview_assets, pit_stops, ai_narrative_text, archive,
                   raised>>
    /\ ComponentsIdle

\* lines 193-195
FetchRoutes ==
    /\ pc = "Submitted"
    /\ \E response \in Asked("get_route_options", <<start_destination, end_destination>>,
                              RouteResponses) :
          LET call == CachedCall("get_route_options",
                                 <<start_destination, end_destination>>,
                                 Return(GetRouteOptions(response)), TRUE)
              options == call.ret
          IN  /\ cache' = call.cache
              /\ requests' = call.requests
              /\ route_options' = options
              /\ IF Falsy(options)
                 THEN /\ messages' = messages \cup {Error("No routes found.")}
                      /\ pc' = "Aborted"
                 ELSE /\ messages' = messages
                      /\ pc' = "RoutesFetched"
    /\ calls' = Append(calls, "directions")
    /\ UNCHANGED <<start_destination, end_destination, report_data, chosen_route_id,
                   chosen_route, preview_assets, pit_stops, ai_narrative_text, archive,
                   raised>>
    /\ ComponentsIdle

\* lines 196-197, one route of the loop
Enriched(route) == "scenic_spots" \in DOMAIN route

NextToEnrich(options) ==
    CHOOSE i \in 1..Len(options) :
        /\ ~Enriched(options[i])
        /\ \A j \in 1..(i - 1) : Enriched(options[j])

ScenicEnrich ==
    /\ pc = "RoutesFetched"
    /\ LET options == route_options.items
           i == NextToEnrich(options)
       IN  \E k \in Asked("get_scenic_spots", options[i].polyline, ScenicCounts) :
              LET spots == CachedCall("get_scenic_spots", options[i].polyline,
                               GetScenicSpots(options[i].polyline, ScenicScenario(k)), TRUE)
              IN  /\ cache' = spots.cache
                  /\ requests' = spots.requests
                  /\ IF spots.exc # "none"
                     THEN /\ Crash(spots.exc, "get_scenic_spots")
                          /\ UNCHANGED route_options
                     ELSE /\ route_options' =
                                List([options EXCEPT
                                        ![i] = options[i] @@ ("scenic_spots" :> spots.ret.items)])
                          /\ pc' = IF i = Len(options) THEN "ScenicEnriched" ELSE "RoutesFetched"
                          /\ UNCHANGED raised
    /\ calls' = Append(calls, "get_scenic_spots")
    /\ UNCHANGED <<start_destination, end_destination, report_data, chosen_route_id,
                   chosen_route, preview_assets, pit_stops, ai_narrative_text, messages,
                   archive>>
    /\ ComponentsIdle

\* lines 198-205
ChooseRoute ==
    /\ pc = "ScenicEnriched"
    /\ \E response \in Asked("get_llm_choice", route_options.items, ChoiceResponses) :
          LET call == CachedCall("get_llm_choice", route_options.items,
                                 Return(GetLlmChoice(response)), TRUE)
              id == call.ret
              options == route_options.items
              route == SelectRoute(id, options)
              warned == IF ChoiceInconclusive(id, options)
                        THEN {Warning("AI choice inconclusive, defaulting to route with most scenic spots.")}
                        ELSE {}
          IN  /\ cache' = call.cache
              /\ requests' = call.requests
              /\ chosen_route_id' = id
              /\ chosen_route' = route
              /\ IF route = None
                 THEN /\ messages' = messages \cup warned \cup {Error("Could not determine a final route.")}
                      /\ pc' = "Aborted"
                 ELSE /\ messages' = messages \cup warned
                      /\ pc' = "RouteChosen"
    /\ calls' = Append(calls, "get_llm_choice")
    /\ UNCHANGED <<start_destination, end_destination, report_data, route_options,
                   preview_assets, pit_stops, ai_narrative_text, archive, raised>>
    /\ ComponentsIdle

\* lines 207-208
BuildPreview ==
    /\ pc = "RouteChosen"
    /\ \E outcomes \in Asked("create_drive_preview_assets", chosen_route.polyline,
                              PreviewScenarios) :
          LET assets == CachedCall("create_drive_preview_assets", chosen_route.polyline,
                            CreateDrivePreviewAssets(chosen_route.polyline, outcomes), TRUE)
          IN  /\ cache' = assets.cache
              /\ requests' = assets.requests
              /\ IF assets.exc # "none"
                 THEN /\ Crash(assets.exc, "create_drive_preview_assets")
                      /\ UNCHANGED preview_assets
                 ELSE /\ preview_assets' = assets.ret
                      /\ pc' = "PreviewBuilt"
                      /\ UNCHANGED raised
    /\ calls' = Append(calls, "create_drive_preview_assets")
    /\ UNCHANGED <<start_destination, end_destination, report_data, route_options,
                   chosen_route_id, chosen_route, pit_stops, ai_narrative_text, messages,
                   archive>>
    /\ ComponentsIdle

\* line 209
FindPitStops ==
    /\ pc = "PreviewBuilt"
    /\ \E response \in Asked("get_pit_stops", chosen_route.polyline, PitResponses) :
          LET stops == CachedCall("get_pit_stops", chosen_route.polyline,
                           GetPitStops(chosen_route.polyline, response), TRUE)
          IN  /\ cache' = stops.cache
              /\ requests' = stops.requests
              /\ IF stops.exc # "none"
                 THEN /\ Crash(stops.exc, "get_pit_stops")
                      /\ UNCHANGED pit_stops
                 ELSE /\ pit_stops' = stops.ret
                      /\ pc' = "PitStopsFound"
                      /\ UNCHANGED raised
    /\ calls' = Append(calls, "get_pit_stops")
    /\ UNCHANGED <<start_destination, end_destination, report_data, route_options,
                   chosen_route_id, chosen_route, preview_assets, ai_narrative_text,
                   messages, archive>>
    /\ ComponentsIdle

\* lines 210-211
Narrate ==
    /\ pc = "PitStopsFound"
    /\ \E response \in NarrativeResponses :
          LET narrative_stream == GetLlmNarrativeStream(response)
          IN  IF narrative_stream = None
              THEN /\ messages' = messages \cup {Error("The AI narrative could not be generated")}
                   /\ ai_narrative_text' = List(NarrativeFailed)
                   /\ pc' = "FullyEnriched"
                   /\ UNCHANGED raised
              ELSE LET text == StreamText(narrative_stream)
                   IN  IF text.exc # "none"
                       THEN /\ Crash(text.exc, "stream_text_generator")
                            /\ UNCHANGED <<ai_narrative_text, messages>>
                       ELSE /\ ai_narrative_text' = text.ret
                            /\ pc' = "FullyEnriched"
                            /\ UNCHANGED <<raised, messages>>
    /\ calls' = Append(calls, "get_llm_narrative_stream")
    /\ UNCHANGED <<start_destination, end_destination, report_data, route_options,
                   chosen_route_id, chosen_route, preview_assets, pit_stops, archive>>
    /\ ComponentsIdle
    /\ CacheIdle

MapUrl(route, start, end) == [enc |-> route.polyline, A |-> start, B |-> end]

\* a report that shows the scenic spots of the first candidate
ReportOfFirstRoute ==
    [start_destination |-> start_destination,
     end_destination |-> end_destination,
     chosen_route |-> chosen_route,
     ai_narrative |-> ai_narrative_text.items,
     map_url |-> MapUrl(chosen_route, start_destination, end_destination),
     grid_urls |-> preview_assets.grid_urls,
     scenic_spots |-> route_options.items[1].scenic_spots,
     pit_stops |-> pit_stops.items,
     drive_gif |-> preview_assets.drive_gif]

\* the dict of lines 218-222
ReportOfRun ==
    [start_destination |-> start_destination,
     end_destination |-> end_destination,
     chosen_route |-> chosen_route,
     ai_narrative |-> ai_narrative_text.items,
     map_url |-> MapUrl(chosen_route, start_destination, end_destination),
     grid_urls |-> preview_assets.grid_urls,
     scenic_spots |-> chosen_route.scenic_spots,
     pit_stops |-> pit_stops.items,
     drive_gif |-> preview_assets.drive_gif]

\* lines 213-222
AssignReport ==
    /\ pc = "FullyEnriched"
    /\ messages' = messages \cup {Success("Your scenic route is ready!")}
    /\ report_data' = ReportOfRun
    /\ pc' = "Dashboard"
    /\ UNCHANGED <<start_destination, end_destination, route_options, chosen_route_id,
                   chosen_route, preview_assets, pit_stops, ai_narrative_text, archive,
                   raised, calls>>
    /\ ComponentsIdle
    /\ CacheIdle

\* the st.info of lines 244, 259, 268, 283, 289
DashboardInfos(data) ==
    {Info("Report has been automatically saved to the 'archive' folder.")}
    \cup (IF data.drive_gif = None THEN {Info("Animated preview not available.")} ELSE {})
    \cup (IF Falsy(data.grid_urls) THEN {Info("Static previews not available.")} ELSE {})
    \cup (IF data.scenic_spots = <<>> THEN {Info("This route is more direct.")} ELSE {})
    \cup (IF data.pit_stops = <<>>
          THEN {Info("No high-rated pit stops were found near the midpoint.")} ELSE {})

\* lines 225-289
Dashboard ==
    /\ pc = "Dashboard"
    /\ IF report_data = None
       THEN /\ pc' = "Idle"
            /\ UNCHANGED <<messages, archive, raised, calls>>
       ELSE LET report_html == GenerateReportHtml(report_data)
            IN  IF report_html.exc # "none"
                THEN /\ Crash(report_html.exc, "generate_report_html")
                     /\ calls' = Append(calls, "generate_report_html")
                     /\ UNCHANGED <<messages, archive>>
                ELSE \* lines 240-243: the name holds the time to the second; a
                     \* write within the second of the last one replaces its file
                     /\ \/ /\ archive < MaxArchive
                           /\ archive' = archive + 1
                        \/ /\ archive > 0
                           /\ archive' = archive
                     /\ messages' = messages \cup DashboardInfos(report_data)
                     /\ calls' = calls \o <<"generate_report_html", "write">>
                     /\ pc' = "Presented"
                     /\ UNCHANGED raised
    /\ UNCHANGED <<start_destination, end_destination, report_data, route_options,
                   chosen_route_id, chosen_route, preview_assets, pit_stops,
                   ai_narrative_text>>
    /\ ComponentsIdle
    /\ CacheIdle

ScriptIdle ==
    /\ pc = "Idle"
    /\ start_destination = Unselected
    /\ end_destination = Unselected
    /\ report_data = None
    /\ route_options = None
    /\ chosen_route_id = None
    /\ chosen_route = None
    /\ preview_assets = None
    /\ pit_stops = None
    /\ ai_narrative_text = None
    /\ messages = {}
    /\ archive = 0
    /\ raised = None
    /\ calls = <<>>
    /\ cache = EmptyCache
    /\ requests = NoRequests

Init ==
    /\ ScriptIdle
    /\ preview = None
    /\ scenic = None
    /\ pit = None
    /\ choice = None
    /\ sampler = None

Next ==
    \/ SearchboxInput
    \/ DownloadClick
    \/ PlanButton
    \/ FetchRoutes
    \/ ScenicEnrich
    \/ ChooseRoute
    \/ BuildPreview
    \/ FindPitStops
    \/ Narrate
    \/ AssignReport
    \/ Dashboard

Spec == Init /\ [][Next]_vars

-----------------------------------------------------------------------------
(* Properties of the planning run *)

ScenicCountsOf(options) == [i \in 1..Len(options) |-> Len(options[i].scenic_spots)]

\* C1: once a route is chosen it is one of the routes get_route_options
\* returned in this run, whatever get_llm_choice answered.
C1_ChosenRouteIsFetched ==
    chosen_route # None =>
        /\ ~Falsy(route_options)
        /\ \E i \in 1..Len(route_options.items) :
              /\ chosen_route = route_options.items[i]
              /\ chosen_route.id = RouteId(i)

\* the AI answered an id that no fetched route has, and a route was chosen
C1_Witness ==
    /\ pc = "RouteChosen"
    /\ chosen_route_id # None
    /\ chosen_route_id \notin RouteIds(route_options.items)
    /\ chosen_route \in Range(route_options.items)

\* C2: a run whose stages all returned, however degraded their results, is
\* presented: the report is composed and written, every degraded stage has
\* its message, and no exception ends the script.
C2_DegradedRunPresented ==
    (pc \in ScriptOver /\ report_data # None) =>
        /\ pc = "Presented"
        /\ raised = None
        /\ "write" \in Range(calls)
        /\ (report_data.drive_gif = None =>
               Info("Animated preview not available.") \in messages)
        /\ (report_data.scenic_spots = <<>> =>
               Info("This route is more direct.") \in messages)

\* C3: when the AI choice is None or names no fetched route, the chosen
\* route has the largest number of scenic spots, and every route before it
\* in the fetched order has strictly fewer.
C3_FallbackIsFirstArgMax ==
    (chosen_route # None /\ ChoiceInconclusive(chosen_route_id, route_options.items)) =>
        \E i \in 1..Len(route_options.items) :
            LET options == route_options.items
            IN  /\ chosen_route = options[i]
                /\ \A j \in 1..Len(options) :
                      Len(options[j].scenic_spots) <= Len(options[i].scenic_spots)
                /\ \A j \in 1..(i - 1) :
                      Len(options[j].scenic_spots) < Len(options[i].scenic_spots)

\* counts [0, 2, 2] and an answer that parses to no fetched route: the
\* first of the two routes with 2 spots is chosen
C3_Witness ==
    /\ pc = "RouteChosen"
    /\ ChoiceInconclusive(chosen_route_id, route_options.items)
    /\ ScenicCountsOf(route_options.items) = <<0, 2, 2>>
    /\ chosen_route.id = RouteId(2)

ComponentErrors == {"TransportError", "DecodeError", "ZeroResultsError", "AIParseError"}

\* C4: no TransportError, DecodeError, ZeroResultsError or AIParseError
\* leaves the component that raised it.
C4_ComponentErrorsContained ==
    raised # None => raised.exc \notin ComponentErrors

ReportFields == {"start_destination", "end_destination", "chosen_route", "ai_narrative",
                 "map_url", "grid_urls", "scenic_spots", "pit_stops", "drive_gif"}

InPlanningRun == pc \in {"Submitted", "RoutesFetched", "ScenicEnriched", "RouteChosen",
                         "PreviewBuilt", "PitStopsFound", "FullyEnriched"}

ReportAbsentOrComplete ==
    /\ InPlanningRun => report_data = None
    /\ (pc = "Aborted" \/ (pc = "Crashed" /\ raised.in # "generate_report_html")) =>
          report_data = None
    /\ report_data # None => DOMAIN report_data = ReportFields

\* the report changes only by being cleared on submission, before any call
\* of the new run, or by being set to the nine values of the run that ends
ReportReplacedWholesale ==
    report_data' # report_data =>
        \/ /\ report_data' = None
           /\ pc' = "Submitted"
           /\ calls' = <<>>
        \/ /\ pc = "FullyEnriched"
           /\ report_data = None
           /\ DOMAIN report_data' = ReportFields
           /\ report_data'.start_destination = start_destination
           /\ report_data'.end_destination = end_destination
           /\ report_data'.chosen_route = chosen_route
           /\ report_data'.ai_narrative = ai_narrative_text.items
           /\ report_data'.map_url.enc = chosen_route.polyline
           /\ report_data'.grid_urls = preview_assets.grid_urls
           /\ report_data'.drive_gif = preview_assets.drive_gif
           /\ report_data'.scenic_spots = chosen_route.scenic_spots
           /\ report_data'.pit_stops = pit_stops.items

\* C5: the stored report is absent during a planning run and after a fatal
\* abort, and is otherwise the complete nine-field report of one run; it is
\* cleared on submission before any remote call and set in one assignment.
C5_ReportReplacedWholesale ==
    /\ []ReportAbsentOrComplete
    /\ [][ReportReplacedWholesale]_vars
    /\ [][pc' = "Submitted" => report_data' = None /\ calls' = <<>>]_vars

\* a second submission: the report of the completed first run is gone
\* before the directions call
C5_Witness ==
    /\ pc = "Submitted"
    /\ archive >= 1
    /\ report_data = None
    /\ calls = <<>>

\* C6: when no routes are found the run stops with that one message; the
\* directions call is the only call of the run, and nothing is chosen,
\* composed or written.
C6_NoRoutesStopsRun ==
    Error("No routes found.") \in messages =>
        /\ pc = "Aborted"
        /\ Falsy(route_options)
        /\ messages = {Error("No routes found.")}
        /\ calls = <<"directions">>
        /\ chosen_route = None
        /\ preview_assets = None
        /\ pit_stops = None
        /\ ai_narrative_text = None
        /\ report_data = None

\* the provider reported zero routes and the run was stopped
C6_Witness ==
    /\ pc = "Aborted"
    /\ route_options = None
    /\ Error("No routes found.") \in messages
    /\ calls = <<"directions">>

\* C12: a report file is written only by the script run that planned the
\* drive; the reruns that follow a completed run (download button,
\* searchbox input) write no further file.
C12_OneFilePerRun ==
    [][archive' # archive => "get_llm_narrative_stream" \in Range(calls)]_vars

\* the store of fn holds ret for args
Stored(fn, args, ret) == \E e \in cache[fn] : e.args = args /\ e.ret = ret

\* route_options as get_route_options returned it, before line 197 adds the
\* scenic spots
AsFetched(options) ==
    IF options = None THEN None
    ELSE List([i \in 1..Len(options.items) |->
                 [f \in DOMAIN options.items[i] \ {"scenic_spots"} |-> options.items[i][f]]])

\* C13: for each memoized operation, the provider is contacted for a given
\* argument value by one execution only, the store holds one result per
\* argument value, and what every call of the run returned is the result
\* stored for its arguments.
C13_RequestsByFirstCallOnly ==
    /\ \A fn \in Memoized :
          /\ \A e \in requests[fn] : e.nth = 1
          /\ \A e1, e2 \in cache[fn] : e1.args = e2.args => e1.ret = e2.ret
    /\ "directions" \in Range(calls) =>
          Stored("get_route_options", <<start_destination, end_destination>>,
                 AsFetched(route_options))
    /\ route_options # None =>
          \A i \in 1..Len(route_options.items) :
              Enriched(route_options.items[i]) =>
                  Stored("get_scenic_spots", route_options.items[i].polyline,
                         List(route_options.items[i].scenic_spots))
    /\ "get_llm_choice" \in Range(calls) =>
          Stored("get_llm_choice", route_options.items, chosen_route_id)
    /\ preview_assets # None =>
          Stored("create_drive_preview_assets", chosen_route.polyline, preview_assets)
    /\ pit_stops # None => Stored("get_pit_stops", chosen_route.polyline, pit_stops)

\* a second planning run for the same places has called the five planning
\* operations again, and each has contacted its provider once in all
C13_Witness ==
    /\ archive = 1
    /\ pc = "PitStopsFound"
    /\ \A fn \in Memoized : requests[fn] # {}

\* C17: an empty or None result, once stored, stays stored and no execution
\* contacts the provider for its arguments again; a planning run submitted
\* for a pair whose routes were stored as None is stopped with "No routes
\* found.", and a stored None choice, null preview or empty pit-stop list is
\* what the later run gets.
C17_FailuresAreMemoized ==
    [][/\ \A fn \in Memoized :
             \A e \in cache[fn] :
                 e.ret = EmptyResult[fn] =>
                     /\ e \in cache'[fn]
                     /\ {r \in requests'[fn] : r.args = e.args}
                           = {r \in requests[fn] : r.args = e.args}
       /\ (/\ pc = "Submitted"
           /\ Stored("get_route_options", <<start_destination, end_destination>>, None)) =>
               /\ pc' = "Aborted"
               /\ route_options' = None
               /\ Error("No routes found.") \in messages'
       /\ (/\ pc = "ScenicEnriched"
           /\ Stored("get_llm_choice", route_options.items, None)) =>
               chosen_route_id' = None
       /\ (/\ pc = "RouteChosen"
           /\ Stored("create_drive_preview_assets", chosen_route.polyline,
                     EmptyResult.create_drive_preview_assets)) =>
               preview_assets' = EmptyResult.create_drive_preview_assets
       /\ (/\ pc = "PreviewBuilt"
           /\ Stored("get_pit_stops", chosen_route.polyline, List(<<>>))) =>
               pit_stops' = List(<<>>)
      ]_vars

\* a planning run is submitted for a pair whose routes were stored as None
\* by an earlier run, the one execution that asked the provider
C17_Witness ==
    /\ pc = "Submitted"
    /\ calls = <<>>
    /\ Stored("get_route_options", <<start_destination, end_destination>>, None)
    /\ requests["get_route_options"]
          = {[args |-> <<start_destination, end_destination>>, nth |-> 1]}

\* the calls of a planning run over n routes, in the order of the stages
PlanningStages(n) ==
    <<"directions">> \o [i \in 1..n |-> "get_scenic_spots"]
    \o <<"get_llm_choice", "create_drive_preview_assets", "get_pit_stops",
         "get_llm_narrative_stream", "generate_report_html", "write">>

IsPrefix(s, t) == Len(s) <= Len(t) /\ s = SubSeq(t, 1, Len(s))

\* C16: the calls of a planning run follow the order of the stages
\* (directions, one scenic search per route, the AI choice, then preview, pit
\* stops and narrative); a route is chosen only among routes all enriched;
\* preview and pit stops are asked for the chosen route; and the report is
\* assigned after the three enrichments returned, from the scenic spots,
\* preview and pit stops of the chosen route.
C16_StagesInOrder ==
    ("directions" \in Range(calls)) =>
        /\ IsPrefix(calls, PlanningStages(IF route_options = None THEN 0
                                          ELSE Len(route_options.items)))
        /\ "get_llm_choice" \in Range(calls) =>
              \A i \in 1..Len(route_options.items) : Enriched(route_options.items[i])
        /\ "create_drive_preview_assets" \in Range(calls) =>
              chosen_route \in Range(route_options.items)
        /\ preview_assets # None =>
              Stored("create_drive_preview_assets", chosen_route.polyline, preview_assets)
        /\ pit_stops # None =>
              /\ preview_assets # None
              /\ Stored("get_pit_stops", chosen_route.polyline, pit_stops)
        /\ ai_narrative_text # None => pit_stops # None
        /\ report_data # None =>
              /\ ai_narrative_text # None
              /\ report_data.chosen_route = chosen_route
              /\ report_data.ai_narrative = ai_narrative_text.items
              /\ report_data.scenic_spots = chosen_route.scenic_spots
              /\ report_data.grid_urls = preview_assets.grid_urls
              /\ report_data.drive_gif = preview_assets.drive_gif
              /\ report_data.pit_stops = pit_stops.items

\* a run over three routes has gone through every stage; the second route,
\* the only one with scenic spots, was chosen and its spots are reported
C16_Witness ==
    /\ pc = "Presented"
    /\ calls = PlanningStages(3)
    /\ ScenicCountsOf(route_options.items) = <<0, 2, 0>>
    /\ chosen_route.id = RouteId(2)
    /\ Len(report_data.scenic_spots) = 2

-----------------------------------------------------------------------------
(* create_drive_preview_assets on its own, one sample point per step.  The  *)
(* frame holds the locals of the call and, as history, what the provider   *)
(* did: visited counts the sample points queried, fetched those whose      *)
(* image request returned 200, clean those where every step succeeded.     *)

scriptVars == <<pc, start_destination, end_destination, report_data, route_options,
                chosen_route_id, chosen_route, preview_assets, pit_stops,
                ai_narrative_text, messages, archive, calls, cache, requests>>

PreviewCall(polyline_str) ==
    [stage |-> "decode", polyline_str |-> polyline_str, sample_points |-> <<>>, n |-> 1,
     locals |-> EmptyPreviewLocals, ret |-> None,
     visited |-> 0, fetched |-> 0, clean |-> 0]

\* the runs explored: imagery at no more than MaxHits points, or trouble at
\* no more than MaxMisses points
PreviewWithinBounds(frame) ==
    frame.fetched <= MaxHits \/ frame.visited - frame.clean <= MaxMisses

InitPreview ==
    /\ ScriptIdle
    /\ preview \in {PreviewCall(p) : p \in {GoodPolyline, BadPolyline}}
    /\ scenic = None
    /\ pit = None
    /\ choice = None
    /\ sampler = None

\* lines 80-82
PreviewDecode ==
    /\ preview.stage = "decode"
    /\ LET path == PolylineDecode(preview.polyline_str)
       IN  IF path.exc # "none"
           THEN /\ preview' = [preview EXCEPT !.stage = "raised"]
                /\ raised' = [exc |-> path.exc, in |-> "create_drive_preview_assets"]
           ELSE /\ preview' = [preview EXCEPT
                                 !.stage = "loop",
                                 !.sample_points = PreviewSamplePoints(path.ret.items)]
                /\ UNCHANGED raised
    /\ UNCHANGED <<scriptVars, scenic, pit, choice, sampler>>

\* lines 83-95, one turn of the loop
PreviewVisit ==
    /\ preview.stage = "loop"
    /\ preview.n <= Len(preview.sample_points)
    /\ ~PreviewBreak(preview.locals)
    /\ \E outcome \in PointOutcomes :
          LET got == outcome.meta = "OK" /\ outcome.image = "200"
              next == [preview EXCEPT
                         !.locals = PreviewPoint(preview.locals,
                                                 preview.sample_points[preview.n], outcome),
                         !.n = preview.n + 1,
                         !.visited = preview.visited + 1,
                         !.fetched = preview.fetched + (IF got THEN 1 ELSE 0),
                         !.clean = preview.clean + (IF outcome = AllOk THEN 1 ELSE 0)]
          IN  /\ PreviewWithinBounds(next)
              /\ preview' = next
    /\ UNCHANGED <<scriptVars, raised, scenic, pit, choice, sampler>>

\* the loop ends (line 83 exhausted or the break of line 84); lines 96-100
PreviewFinish ==
    /\ preview.stage = "loop"
    /\ preview.n > Len(preview.sample_points) \/ PreviewBreak(preview.locals)
    /\ preview' = [preview EXCEPT !.stage = "returned", !.ret = PreviewReturn(preview.locals)]
    /\ UNCHANGED <<scriptVars, raised, scenic, pit, choice, sampler>>

NextPreview ==
    \/ PreviewDecode
    \/ PreviewVisit
    \/ PreviewFinish

SpecPreview == InitPreview /\ [][NextPreview]_vars

PreviewReturned == preview # None /\ preview.stage = "returned"

\* C7: a preview that is not null has at most 12 grid urls and at most 10
\* frames, and frame j is the picture fetched from grid url j.
C7_FramesAreFirstGridEntries ==
    (PreviewReturned /\ preview.ret.drive_gif # None) =>
        LET frames == preview.ret.drive_gif.frames
            grid == preview.ret.grid_urls.items
        IN  /\ Len(grid) <= 12
            /\ Len(frames) <= 10
            /\ Len(frames) <= Len(grid)
            /\ \A j \in 1..Len(frames) : frames[j].picture_of = grid[j].location

\* C8: the points are visited in route order until 12 grid entries exist;
\* with imagery fetched at m visited points the grid has min(m, 12) entries
\* and the animation min(m, 10) frames, and the outputs are null exactly
\* when m is 0.
C8_PreviewCounts ==
    PreviewReturned =>
        LET m == preview.fetched
            ret == preview.ret
        IN  /\ preview.visited = preview.n - 1
            /\ (preview.visited = NumPreviewSamples \/ m = 12)
            /\ (m = 0 <=> ret.drive_gif = None)
            /\ (m = 0 <=> ret.grid_urls = None)
            /\ (m > 0 => /\ Len(ret.grid_urls.items) = Min(m, 12)
                         /\ Len(ret.drive_gif.frames) = Min(m, 10))

-----------------------------------------------------------------------------
(* get_pit_stops on its own.  The nearby-search returns up to MaxPitResults *)
(* records; record n is named [cafe |-> n], so a returned entry tells which *)
(* input record it came from.                                              *)

PitRatings == {0, 35, 48}

\* a record with rating r, or without the key when r is -1
PitRecord(n, r) ==
    IF r = -1 THEN [name |-> [cafe |-> n], user_ratings_total |-> 100 + n]
    ELSE [name |-> [cafe |-> n], rating |-> r, user_ratings_total |-> 100 + n]

PitResultLists ==
    UNION {{[n \in 1..len |-> PitRecord(n, rs[n])] : rs \in [1..len -> PitRatings \cup {-1}]} :
             len \in 0..MaxPitResults}

PitInputs ==
    {[kind |-> k, results |-> <<>>] : k \in {"TransportError", "DecodeError"}}
    \cup {[kind |-> "ok", results |-> results] : results \in PitResultLists}

PitCallFrame(route_polyline, response) ==
    [stage |-> "call", route_polyline |-> route_polyline, response |-> response, ret |-> None]

InitPitStops ==
    /\ ScriptIdle
    /\ pit \in {PitCallFrame(GoodPolyline, r) : r \in PitInputs}
               \cup {PitCallFrame(BadPolyline, [kind |-> "ok", results |-> <<>>])}
    /\ preview = None
    /\ scenic = None
    /\ choice = None
    /\ sampler = None

\* lines 69-76
PitStopsCall ==
    /\ pit.stage = "call"
    /\ LET stops == GetPitStops(pit.route_polyline, pit.response)
       IN  IF stops.exc # "none"
           THEN /\ pit' = [pit EXCEPT !.stage = "raised"]
                /\ raised' = [exc |-> stops.exc, in |-> "get_pit_stops"]
           ELSE /\ pit' = [pit EXCEPT !.stage = "returned", !.ret = stops.ret]
                /\ UNCHANGED raised
    /\ UNCHANGED <<scriptVars, preview, scenic, choice, sampler>>

NextPitStops == PitStopsCall

SpecPitStops == InitPitStops /\ [][NextPitStops]_vars

\* the rating a record is ordered by: its rating, 0 when it has none
OrderRating(p) == IF "rating" \in DOMAIN p THEN p.rating ELSE 0

\* record a of the input goes before record b
RanksBefore(results, a, b) ==
    \/ OrderRating(results[a]) > OrderRating(results[b])
    \/ OrderRating(results[a]) = OrderRating(results[b]) /\ a < b

\* C9: get_pit_stops returns at most 5 entries: the records that rank
\* highest by rating (none counted as 0, equal ratings in input order), in
\* that order, a missing rating shown as "N/A".
C9_PitStopsRanked ==
    (pit # None /\ pit.stage = "returned" /\ pit.response.kind = "ok") =>
        LET results == pit.response.results
            out == pit.ret.items
            from(i) == out[i].name.cafe
        IN  /\ Len(out) = Min(Len(results), 5)
            /\ \A i \in 1..Len(out) :
                  /\ from(i) \in 1..Len(results)
                  /\ out[i].name = results[from(i)].name
                  /\ out[i].total_ratings = results[from(i)].user_ratings_total
                  /\ out[i].rating = IF "rating" \in DOMAIN results[from(i)]
                                     THEN [number |-> results[from(i)].rating]
                                     ELSE [text |-> "N/A"]
            /\ \A i, j \in 1..Len(out) : i < j => RanksBefore(results, from(i), from(j))
            /\ \A i \in 1..Len(out) :
                  \A b \in 1..Len(results) :
                      b \notin {from(k) : k \in 1..Len(out)} => RanksBefore(results, from(i), b)

\* ratings [3.5, 4.8, missing, 4.8] come back as records 2, 4, 1, 3
C9_Witness ==
    /\ pit # None
    /\ pit.stage = "returned"
    /\ pit.response.results = <<PitRecord(1, 35), PitRecord(2, 48), PitRecord(3, -1),
                                PitRecord(4, 48)>>
    /\ [i \in 1..4 |-> pit.ret.items[i].name.cafe] = <<2, 4, 1, 3>>
    /\ pit.ret.items[4].rating = [text |-> "N/A"]

-----------------------------------------------------------------------------
(* get_scenic_spots on its own, one nearby-search per step.  The frame      *)
(* holds the locals of the call and, as history, seen: every raw record    *)
(* any search returned, and first: for each place id the first record the  *)
(* filter of line 62 accepted, in search order.                            *)

Photo(ref) == <<[photo_reference |-> ref]>>

\* the records the provider may return: two scenic records of one place, a
\* third scenic place, and records failing one condition each
ScenicUniverse ==
    {[place_id |-> "p1", name |-> "Falls", photos |-> Photo("f1"), rating |-> 41,
      types |-> {"park"}],
     [place_id |-> "p1", name |-> "Falls View", photos |-> Photo("f2"), rating |-> 45,
      types |-> {"museum", "restaurant"}],
     [place_id |-> "p2", name |-> "Fort", photos |-> Photo("g1"), rating |-> 50,
      types |-> {"landmark"}],
     [place_id |-> "p3", name |-> "Lake", photos |-> Photo("h1"), rating |-> 40,
      types |-> {"natural_feature"}],
     [place_id |-> "p4", name |-> "Hill", rating |-> 41, types |-> {"park"}],
     [place_id |-> "p5", name |-> "Diner", photos |-> Photo("j1"), rating |-> 41,
      types |-> {"restaurant"}],
     [place_id |-> "p6", name |-> "Grove", photos |-> Photo("k1"), types |-> {"zoo"}]}

ScenicResponses ==
    {[kind |-> k, results |-> <<>>] : k \in {"TransportError", "DecodeError"}}
    \cup {[kind |-> "ok", results |-> r] : r \in SeqsUpTo(ScenicUniverse, MaxResults)}

\* history: the accepted records of results, in order, added to those noted
\* unless a record of the same place id is noted already
RECURSIVE NoteFirst(_, _)
NoteFirst(noted, results) ==
    IF results = <<>> THEN noted
    ELSE LET place == Head(results)
             fresh == /\ PlaceFilter(place)
                      /\ \A q \in noted : q.place_id # place.place_id
         IN  NoteFirst(IF fresh THEN noted \cup {place} ELSE noted, Tail(results))

ScenicCall(route_polyline) ==
    [stage |-> "decode", route_polyline |-> route_polyline, i |-> 1, k |-> 1,
     scenic_places |-> <<>>, ret |-> None, seen |-> {}, first |-> {}]

InitScenic ==
    /\ ScriptIdle
    /\ scenic \in {ScenicCall(p) : p \in {GoodPolyline, BadPolyline}}
    /\ preview = None
    /\ pit = None
    /\ choice = None
    /\ sampler = None

\* lines 49-53
ScenicDecode ==
    /\ scenic.stage = "decode"
    /\ LET path == PolylineDecode(scenic.route_polyline)
       IN  IF path.exc # "none"
           THEN /\ scenic' = [scenic EXCEPT !.stage = "raised"]
                /\ raised' = [exc |-> path.exc, in |-> "get_scenic_spots"]
           ELSE /\ scenic' = [scenic EXCEPT !.stage = "loop"]
                /\ UNCHANGED raised
    /\ UNCHANGED <<scriptVars, preview, pit, choice, sampler>>

\* lines 54-64, the search for keyword k at sample point i
ScenicSearchStep ==
    /\ scenic.stage = "loop"
    /\ scenic.i <= NumScenicSamples
    /\ \E response \in ScenicResponses :
          scenic' = [scenic EXCEPT
                       !.scenic_places = ScenicSearch(scenic.scenic_places, response),
                       !.seen = scenic.seen \cup Range(response.results),
                       !.first = IF response.kind = "ok"
                                 THEN NoteFirst(scenic.first, response.results)
                                 ELSE scenic.first,
                       !.k = IF scenic.k = Len(keywords) THEN 1 ELSE scenic.k + 1,
                       !.i = IF scenic.k = Len(keywords) THEN scenic.i + 1 ELSE scenic.i]
    /\ UNCHANGED <<scriptVars, raised, preview, pit, choice, sampler>>

\* line 65
ScenicReturn ==
    /\ scenic.stage = "loop"
    /\ scenic.i > NumScenicSamples
    /\ scenic' = [scenic EXCEPT !.stage = "returned",
                                !.ret = List(DictValues(scenic.scenic_places))]
    /\ UNCHANGED <<scriptVars, raised, preview, pit, choice, sampler>>

NextScenic ==
    \/ ScenicDecode
    \/ ScenicSearchStep
    \/ ScenicReturn

SpecScenic == InitScenic /\ [][NextScenic]_vars

\* a raw record is scenic: it has a photo, a rating above 4.0 and a type of
\* the allow-list
IsScenic(place) ==
    /\ "photos" \in DOMAIN place /\ Len(place.photos) >= 1
    /\ "rating" \in DOMAIN place /\ place.rating > 40
    /\ \E t \in place.types :
          t \in {"tourist_attraction", "park", "museum", "natural_feature", "zoo",
                 "art_gallery", "landmark"}

ScenicIdsSeen == {place.place_id : place \in {q \in scenic.seen : IsScenic(q)}}

\* C10: the scenic places kept are exactly the place ids of the scenic
\* records returned so far, each once, and the list returned has one entry
\* for each.
C10_OneSpotPerScenicPlace ==
    (scenic # None /\ scenic.stage \in {"loop", "returned"}) =>
        /\ DictKeys(scenic.scenic_places) = ScenicIdsSeen
        /\ Len(scenic.scenic_places) = Cardinality(ScenicIdsSeen)
        /\ scenic.stage = "returned" =>
              /\ Len(scenic.ret.items) = Cardinality(ScenicIdsSeen)
              /\ \A n \in 1..Len(scenic.ret.items) :
                    \E place \in scenic.seen :
                        /\ IsScenic(place)
                        /\ place.place_id = scenic.scenic_places[n].key
                        /\ place.name = scenic.ret.items[n].name
                        /\ place.photos[1].photo_reference
                              = scenic.ret.items[n].photo_reference

\* all 42 searches are done; a place was returned by several searches and
\* records failing each condition were returned too
C10_Witness ==
    /\ scenic # None
    /\ scenic.stage = "returned"
    /\ Cardinality({q \in scenic.seen : q.place_id = "p1"}) = 2
    /\ {"p3", "p4", "p5", "p6"} \subseteq {q.place_id : q \in scenic.seen}
    /\ Len(scenic.ret.items) = 2

\* C11: when several accepted records of one route share a place id, the
\* spot kept for that id carries the name and the photo reference of the
\* first of them in search order.
C11_FirstSeenKept ==
    (scenic # None /\ scenic.stage = "returned") =>
        \A n \in 1..Len(scenic.ret.items) :
            \A place \in scenic.first :
                place.place_id = scenic.scenic_places[n].key =>
                    /\ scenic.ret.items[n].name = place.name
                    /\ scenic.ret.items[n].photo_reference
                          = place.photos[1].photo_reference

-----------------------------------------------------------------------------
(* Lines 198-205 on their own: the answer of the model is read and a route *)
(* is selected among enriched routes, for every answer of up to MaxTextLen *)
(* characters.                                                             *)

AnswerAlphabet == {"0", "1", "2", "3", "x"}

ChoiceAnswers ==
    {[kind |-> "TransportError", text |-> <<>>]}
    \cup {[kind |-> "ok", text |-> t] : t \in SeqsUpTo(AnswerAlphabet, MaxTextLen)}

\* route_options after line 197: route i has found counts[i] scenic spots
EnrichedRoutes(counts) ==
    LET fetched == GetRouteOptions(
                       [kind |-> "ok",
                        routes |-> [i \in 1..Len(counts) |-> ProviderRoute(i, GoodPolyline)]])
    IN  [i \in 1..Len(counts) |->
            fetched.items[i] @@
            ("scenic_spots" :>
                GetScenicSpots(fetched.items[i].polyline, ScenicScenario(counts[i])).ret.items)]

ChoiceFrame(options, response) ==
    [stage |-> "call", route_options |-> options, response |-> response,
     chosen_route_id |-> None, chosen_route |-> None, messages |-> {}]

InitChoice ==
    /\ ScriptIdle
    /\ choice \in {ChoiceFrame(EnrichedRoutes(counts), response) :
                      counts \in UNION {[1..n -> ScenicCounts] : n \in 1..MaxRoutes},
                      response \in ChoiceAnswers}
    /\ preview = None
    /\ scenic = None
    /\ pit = None
    /\ sampler = None

\* lines 198-205
ChoiceStep ==
    /\ choice.stage = "call"
    /\ LET options == choice.route_options
           id == GetLlmChoice(choice.response)
           route == SelectRoute(id, options)
           warned == IF ChoiceInconclusive(id, options)
                     THEN {Warning("AI choice inconclusive, defaulting to route with most scenic spots.")}
                     ELSE {}
       IN  choice' = [choice EXCEPT
                        !.chosen_route_id = id,
                        !.chosen_route = route,
                        !.messages = IF route = None
                                     THEN warned \cup {Error("Could not determine a final route.")}
                                     ELSE warned,
                        !.stage = IF route = None THEN "aborted" ELSE "chosen"]
    /\ UNCHANGED <<scriptVars, raised, preview, scenic, pit, sampler>>

NextChoice == ChoiceStep

SpecChoice == InitChoice /\ [][NextChoice]_vars

DigitChars == {ToString(d) : d \in 0..9}

HasDigit(text) == \E k \in 1..Len(text) : text[k] \in DigitChars

\* the number written by the digit characters of text, read left to right
RECURSIVE NumberRead(_, _)
NumberRead(text, n) ==
    IF text = <<>> THEN n
    ELSE IF Head(text) \in DigitChars
         THEN NumberRead(Tail(text), 10 * n + (CHOOSE d \in 0..9 : ToString(d) = Head(text)))
         ELSE NumberRead(Tail(text), n)

\* C14: with n the number written by all the digits of the answer, an answer
\* with 1 <= n <= N selects the n-th fetched route, whose id is Route n; an
\* answer without digit, a failed call, n = 0 and n > N give the warning and
\* the first route with the most scenic spots; the run is never stopped here.
C14_ChoiceReadFromDigits ==
    (choice # None /\ choice.stage # "call") =>
        LET options == choice.route_options
            text == choice.response.text
            n == NumberRead(text, 0)
            conclusive == /\ choice.response.kind = "ok"
                          /\ HasDigit(text)
                          /\ 1 <= n
                          /\ n <= Len(options)
            warning == Warning("AI choice inconclusive, defaulting to route with most scenic spots.")
        IN  /\ choice.stage = "chosen"
            /\ IF conclusive
               THEN /\ choice.chosen_route = options[n]
                    /\ choice.chosen_route.id = RouteId(n)
                    /\ warning \notin choice.messages
               ELSE /\ warning \in choice.messages
                    /\ \E i \in 1..Len(options) :
                          /\ choice.chosen_route = options[i]
                          /\ \A j \in 1..Len(options) :
                                Len(options[j].scenic_spots) <= Len(options[i].scenic_spots)
                          /\ \A j \in 1..(i - 1) :
                                Len(options[j].scenic_spots) < Len(options[i].scenic_spots)

\* the answer "02" with three routes of which the second has no scenic spot:
\* the second route is chosen
C14_Witness ==
    /\ choice # None
    /\ choice.stage = "chosen"
    /\ choice.response.text = <<"0", "2">>
    /\ ScenicCountsOf(choice.route_options) = <<2, 0, 2>>
    /\ choice.chosen_route.id = RouteId(2)

-----------------------------------------------------------------------------
(* The three samplers on their own, for every path of 1 to MaxPathLen      *)
(* points: the frame holds the path length and the indices computed.       *)

SamplerFrame(L) ==
    [stage |-> "decoded", L |-> L, scenic |-> <<>>, preview |-> <<>>, midpoint |-> -1]

InitSampler ==
    /\ ScriptIdle
    /\ sampler \in {SamplerFrame(L) : L \in 1..MaxPathLen}
    /\ preview = None
    /\ scenic = None
    /\ pit = None
    /\ choice = None

\* lines 50, 70 and 82
SampleStep ==
    /\ sampler.stage = "decoded"
    /\ sampler' = [sampler EXCEPT !.stage = "sampled",
                                  !.scenic = ScenicSampleIndices(sampler.L),
                                  !.preview = PreviewSampleIndices(sampler.L),
                                  !.midpoint = MidpointIndex(sampler.L)]
    /\ UNCHANGED <<scriptVars, raised, preview, scenic, pit, choice>>

NextSampler == SampleStep

SpecSampler == InitSampler /\ [][NextSampler]_vars

\* C15: for a path of L >= 1 points, the 7 indices of the scenic scorer, the
\* 24 indices of the preview builder and the midpoint index of the pit-stop
\* finder all lie in 0..L-1, and for L = 100 the scenic scorer samples at
\* 0, 14, 28, 42, 57, 71, 85.
C15_SampleIndicesInPath ==
    (sampler # None /\ sampler.stage = "sampled") =>
        /\ Len(sampler.scenic) = 7
        /\ Len(sampler.preview) = 24
        /\ \A index \in Range(sampler.scenic) \cup Range(sampler.preview)
                         \cup {sampler.midpoint} :
              0 <= index /\ index <= sampler.L - 1
        /\ sampler.L = 100 => sampler.scenic = <<0, 14, 28, 42, 57, 71, 85>>

\* a path of 100 points has been sampled
C15_Witness ==
    /\ sampler # None
    /\ sampler.stage = "sampled"
    /\ sampler.L = 100
    /\ sampler.scenic[4] = 42
    /\ sampler.preview[24] = 96
    /\ sampler.midpoint = 50

====
